---------------------------- MODULE Spec2Model ----------------------------
(***************************************************************************)
(* Model of rag_core.py: the text loader, the chunker, the TF-IDF vector   *)
(* store and the session object RAGSessionState (add_document / ask).      *)
(*                                                                         *)
(* A text is a sequence of code points; a byte string is a sequence of     *)
(* integers in 0..255.  Scores are fixed-point numbers with three decimal  *)
(* digits (1000 stands for 1.0).                                           *)
(***************************************************************************)
EXTENDS Integers, Sequences, FiniteSets, TLC

VARIABLES
    raw_texts,      \* RAGSessionState.raw_texts : list of decoded documents
    all_chunks,     \* RAGSessionState.all_chunks : list of chunk texts
    vectorstore,    \* RAGSessionState.vectorstore : None or a SimpleVectorStore
    last            \* observation of the last call: its arguments and how it ended

vars == <<raw_texts, all_chunks, vectorstore, last>>

-----------------------------------------------------------------------------
(* Bounds of the model *)

\* add_document is called while fewer than MaxDocs documents are stored
MaxDocs == 2
\* longest chunk sequence handed directly to build_vectorstore_from_chunks
MaxChunks == 3
\* largest k handed directly to similarity_search
MaxK == 3

-----------------------------------------------------------------------------
(* Python str / bytes primitives *)

Min(a, b) == IF a <= b THEN a ELSE b

Rep(c, n) == [i \in 1..n |-> c]

\* str.isspace for code points below U+0800
isspace(c) == (9 <= c /\ c <= 13) \/ (28 <= c /\ c <= 32) \/ c = 133 \/ c = 160

\* str.strip()
strip(s) ==
    IF \A i \in DOMAIN s : isspace(s[i]) THEN <<>>
    ELSE LET a == CHOOSE i \in DOMAIN s :
                      ~isspace(s[i]) /\ \A j \in 1..(i - 1) : isspace(s[j])
             n == Len(s)
             \* d - 1 trailing characters are dropped
             d == CHOOSE i \in 1..n :
                      ~isspace(s[n + 1 - i]) /\ \A j \in 1..(i - 1) : isspace(s[n + 1 - j])
         IN  SubSeq(s, a, n + 1 - d)

\* str.lower for code points below U+0100
lower(c) ==
    IF (65 <= c /\ c <= 90) \/ (192 <= c /\ c <= 222 /\ c # 215) THEN c + 32 ELSE c

\* sep.join(parts)
RECURSIVE join(_, _)
join(sep, parts) ==
    IF parts = <<>> THEN <<>>
    ELSE IF Len(parts) = 1 THEN parts[1]
    ELSE parts[1] \o sep \o join(sep, Tail(parts))

\* bytes.decode("utf-8", errors="ignore") for one- and two-byte forms: an ASCII
\* byte is itself, a lead byte C2..DF followed by a continuation byte 80..BF is
\* one code point, and every other byte is dropped.  (Lead bytes E0..F4 of the
\* three- and four-byte forms are not among the bytes the inputs draw.)
decode_utf8_ignore(b) ==
    LET n == Len(b)
        IsCont(i) == i <= n /\ b[i] \in 128..191
        out == [i \in 1..n |->
                  IF b[i] < 128 THEN b[i]
                  ELSE IF b[i] \in 194..223 /\ IsCont(i + 1)
                       THEN (b[i] - 192) * 64 + (b[i + 1] - 128)
                       ELSE -1]
    IN  SelectSeq(out, LAMBDA c : c >= 0)

-----------------------------------------------------------------------------
(* Text loader *)

\* The utf-8 decode with errors="ignore" never raises, so the cp949 branch and
\* the final return "" are never taken; filename is lowered and not used.
load_file_to_text(file_bytes, filename) == decode_utf8_ignore(file_bytes)

-----------------------------------------------------------------------------
(* Chunker: CharacterTextSplitter(separator="\n", chunk_size, chunk_overlap) *)

chunk_size_default == 500
chunk_overlap_default == 100

\* re.split("\n", text), empty pieces included
split_on_newline(text) ==
    LET n == Len(text)
        nls == {i \in 1..n : text[i] = 10}
        m == Cardinality(nls)
        pos(k) == IF k = 0 THEN 0
                  ELSE IF k = m + 1 THEN n + 1
                  ELSE CHOOSE p \in nls : Cardinality({q \in nls : q < p}) = k - 1
    IN  [k \in 1..(m + 1) |-> SubSeq(text, pos(k - 1) + 1, pos(k) - 1)]

\* _split_text_with_regex: the pieces that are not the empty string
split_text_with_regex(text) == SelectSeq(split_on_newline(text), LAMBDA s : s # <<>>)

\* _join_docs: the pieces joined and stripped; docs gains nothing when that is ""
join_docs(docs, current_doc, sep) ==
    LET text == strip(join(sep, current_doc))
    IN  IF text = <<>> THEN docs ELSE Append(docs, text)

\* the while loop of _merge_splits that drops pieces from the front of
\* current_doc until what is left fits the overlap (and the next piece)
RECURSIVE pop_overlap(_, _, _, _, _, _)
pop_overlap(current_doc, total, len, sep, chunk_size, chunk_overlap) ==
    IF total > chunk_overlap
       \/ ( total + len + (IF Len(current_doc) > 0 THEN Len(sep) ELSE 0) > chunk_size
            /\ total > 0 )
    THEN pop_overlap(Tail(current_doc),
                     total - (Len(current_doc[1])
                              + (IF Len(current_doc) > 1 THEN Len(sep) ELSE 0)),
                     len, sep, chunk_size, chunk_overlap)
    ELSE [current_doc |-> current_doc, total |-> total]

\* the for loop of _merge_splits, from piece i on
RECURSIVE merge_from(_, _, _, _, _, _, _, _)
merge_from(splits, i, docs, current_doc, total, sep, chunk_size, chunk_overlap) ==
    IF i > Len(splits) THEN join_docs(docs, current_doc, sep)
    ELSE
      LET d == splits[i]
          len == Len(d)
          full == total + len + (IF Len(current_doc) > 0 THEN Len(sep) ELSE 0)
                      > chunk_size
          flush == full /\ Len(current_doc) > 0
          docs1 == IF flush THEN join_docs(docs, current_doc, sep) ELSE docs
          kept == IF flush
                  THEN pop_overlap(current_doc, total, len, sep, chunk_size, chunk_overlap)
                  ELSE [current_doc |-> current_doc, total |-> total]
          cur1 == Append(kept.current_doc, d)
          total1 == kept.total + len + (IF Len(cur1) > 1 THEN Len(sep) ELSE 0)
      IN  merge_from(splits, i + 1, docs1, cur1, total1, sep, chunk_size, chunk_overlap)

split_text_to_chunks(text, chunk_size, chunk_overlap) ==
    merge_from(split_text_with_regex(text), 1, <<>>, <<>>, 0, <<10>>,
               chunk_size, chunk_overlap)

-----------------------------------------------------------------------------
(* TfidfVectorizer with its defaults: lowercase, token pattern \b\w\w+\b,    *)
(* smooth idf, l2 norm                                                       *)

\* \w for code points below U+0100
isword(c) ==
    \/ (48 <= c /\ c <= 57) \/ (65 <= c /\ c <= 90) \/ c = 95 \/ (97 <= c /\ c <= 122)
    \/ c \in {170, 178, 179, 181, 185, 186, 188, 189, 190}
    \/ (192 <= c /\ c <= 255 /\ c # 215 /\ c # 247)

\* the matches of \b\w\w+\b in the lowered text, as <<start, token>> pairs
\* (lowering maps no character into or out of \w, so the runs are those of text)
analyze(text) ==
    LET n == Len(text)
        starts == {i \in 1..n : isword(text[i]) /\ (i = 1 \/ ~isword(text[i - 1]))}
        stop(s) == CHOOSE j \in s..n :
                       (j = n \/ ~isword(text[j + 1])) /\ \A m \in s..j : isword(text[m])
    IN  {<<s, [i \in 1..(stop(s) - s + 1) |-> lower(text[s + i - 1])]>>
           : s \in {t \in starts : stop(t) > t}}

\* the distinct tokens among the matches
terms(occurrences) == {o[2] : o \in occurrences}

\* term frequency: the number of matches that are term
tf(occurrences, term) == Cardinality({o \in occurrences : o[2] = term})

\* 1000 * ln(m), rounded, for m in 1..16
ln1000(m) ==
    <<0, 693, 1099, 1386, 1609, 1792, 1946, 2079,
      2197, 2303, 2398, 2485, 2565, 2639, 2708, 2773>>[m]

RECURSIVE sum_sq(_, _)
sum_sq(v, S) ==
    IF S = {} THEN 0
    ELSE LET t == CHOOSE x \in S : TRUE IN v[t] * v[t] + sum_sq(v, S \ {t})

RECURSIVE dot(_, _, _)
dot(u, v, S) ==
    IF S = {} THEN 0
    ELSE LET t == CHOOSE x \in S : TRUE IN u[t] * v[t] + dot(u, v, S \ {t})

\* floor of the square root, by bisection on lo..hi
RECURSIVE isqrt_in(_, _, _)
isqrt_in(x, lo, hi) ==
    IF lo >= hi THEN lo
    ELSE LET mid == (lo + hi + 1) \div 2
         IN  IF mid * mid <= x THEN isqrt_in(x, mid, hi) ELSE isqrt_in(x, lo, mid - 1)

\* np.linalg.norm of a vector over the vocabulary
norm(v) == isqrt_in(sum_sq(v, DOMAIN v), 0, 46340)

\* sklearn normalize(norm="l2"): a zero row stays zero
l2_normalize(v) ==
    LET nv == norm(v)
    IN  IF nv = 0 THEN v ELSE [t \in DOMAIN v |-> (v[t] * 1000) \div nv]

\* smooth idf: ln((1 + n) / (1 + df)) + 1, where analyzed[i] holds the matches
\* of chunk i
idf_of(analyzed, term) ==
    LET n == Len(analyzed)
        df == Cardinality({i \in 1..n : term \in terms(analyzed[i])})
    IN  ln1000(1 + n) - ln1000(1 + df) + 1000

\* one row of vectorizer.transform: tf * idf over the vocabulary, l2-normalized
transform(vocabulary, idf, occurrences) ==
    l2_normalize([t \in vocabulary |-> tf(occurrences, t) * idf[t]])

\* the vocabulary fit_transform learns
vocabulary_of(analyzed) == UNION {terms(analyzed[i]) : i \in 1..Len(analyzed)}

\* vectorizer.fit_transform(chunks) raises ValueError("empty vocabulary; ...")
\* when no chunk holds a token
fit_raises(chunks) == \A i \in 1..Len(chunks) : analyze(chunks[i]) = {}

-----------------------------------------------------------------------------
(* SimpleVectorStore *)

None == [kind |-> "None"]

\* the store with its fields; vectorizer is the fitted vocabulary and idf
Store(chunks, vocabulary, idf, matrix) ==
    [kind |-> "SimpleVectorStore", chunks |-> chunks, vocabulary |-> vocabulary,
     idf |-> idf, matrix |-> matrix]

\* fit_transform on the analyzed chunks
fit_transform(chunks, analyzed, vocabulary) ==
    LET idf == [t \in vocabulary |-> idf_of(analyzed, t)]
    IN  Store(chunks, vocabulary, idf,
              [kind |-> "matrix",
               rows |-> [i \in 1..Len(chunks) |->
                           transform(vocabulary, idf, analyzed[i])]])

\* SimpleVectorStore.__init__ where it returns normally
SimpleVectorStore(chunks) ==
    IF chunks = <<>>
    THEN Store(chunks, {}, <<>>, None)
    ELSE LET analyzed == [i \in 1..Len(chunks) |-> analyze(chunks[i])]
         IN  fit_transform(chunks, analyzed, vocabulary_of(analyzed))

\* variant: no "if not chunks: return None"
build_vectorstore_unguarded(chunks) ==
    IF chunks # <<>> /\ fit_raises(chunks) THEN [raised |-> TRUE, value |-> None]
    ELSE [raised |-> FALSE, value |-> SimpleVectorStore(chunks)]

\* build_vectorstore_from_chunks: what it returns, or that it raised
build_vectorstore_from_chunks(chunks) ==
    IF chunks = <<>> THEN [raised |-> FALSE, value |-> None]
    ELSE IF fit_raises(chunks) THEN [raised |-> TRUE, value |-> None]
    ELSE [raised |-> FALSE, value |-> SimpleVectorStore(chunks)]

\* variant: "not query" in place of "not query.strip()"
search_is_empty_unstripped(store, query) == store.matrix.kind = "None" \/ query = <<>>

\* the early return of similarity_search
search_is_empty(store, query) == store.matrix.kind = "None" \/ strip(query) = <<>>

\* cosine_scores: dot / ((doc_norm + 1e-10) * (q_norm + 1e-10)).  The epsilon is
\* below the resolution of the fixed-point scores; all it does is keep the
\* quotient defined (and 0) for a zero row or a zero query vector.
cosine_scores(store, query) ==
    LET q_vec == transform(store.vocabulary, store.idf, analyze(query))
        q_norm == norm(q_vec)
    IN  [i \in 1..Len(store.chunks) |->
            LET row == store.matrix.rows[i]
                d == dot(row, q_vec, store.vocabulary)
            IN  IF d = 0 THEN 0 ELSE (d * 1000) \div (norm(row) * q_norm)]

\* variant: the chunk order, whatever the scores
argsort_unsorted(scores) == {[i \in DOMAIN scores |-> i]}

\* np.argsort(scores): an index order with ascending scores.  The default sort
\* is not stable, so every such order is a possible result.
RECURSIVE argsort_of(_, _)
argsort_of(scores, S) ==
    IF S = {} THEN {<<>>}
    ELSE LET mins == {i \in S : \A j \in S : scores[i] <= scores[j]}
         IN  UNION {{<<i>> \o r : r \in argsort_of(scores, S \ {i})} : i \in mins}

argsort(scores) == argsort_of(scores, DOMAIN scores)

\* variant: the slice [:k] left out
top_k_unsliced(order, k) == [i \in 1..Len(order) |-> order[Len(order) + 1 - i]]

\* variant: the reversal [::-1] left out
top_k_ascending(order, k) == SubSeq(order, 1, Min(k, Len(order)))

\* idx_sorted = argsort(...)[::-1]; top_idx = idx_sorted[:k]
top_k(order, k) ==
    LET n == Len(order)
        idx_sorted == [i \in 1..n |-> order[n + 1 - i]]
    IN  SubSeq(idx_sorted, 1, Min(k, n))

\* variant: only passages with a positive score are kept
collect_positive(chunks, scores, top_idx) ==
    SelectSeq([i \in 1..Len(top_idx) |-> <<chunks[top_idx[i]], scores[top_idx[i]]>>],
              LAMBDA p : p[2] > 0)

\* the loop that fills results
collect_results(chunks, scores, top_idx) ==
    [i \in 1..Len(top_idx) |-> <<chunks[top_idx[i]], scores[top_idx[i]]>>]

\* The possible outcomes of similarity_search: whether the vectorizer was
\* invoked, the local top_idx and the list returned.
similarity_search(store, query, k) ==
    IF search_is_empty(store, query)
    THEN {[transformed |-> FALSE, top_idx |-> <<>>, passages |-> <<>>]}
    ELSE LET scores == cosine_scores(store, query)
             tops == {top_k(order, k) : order \in argsort(scores)}
         IN  {[transformed |-> TRUE, top_idx |-> top_idx,
               passages |-> collect_results(store.chunks, scores, top_idx)]
              : top_idx \in tops}

-----------------------------------------------------------------------------
(* Answer composer *)

preview_max == 400

\* preview = text_block.strip(), cut to 400 characters plus " ..."
preview_of(text_block) ==
    LET p == strip(text_block)
    IN  IF Len(p) > preview_max THEN SubSeq(p, 1, preview_max) \o <<32, 46, 46, 46>>
        ELSE p

\* build_answer_from_passages.  The fixed wording (the two messages, the header
\* and the closing hint) is carried by kind; what varies is the echoed query
\* and one item per passage.
build_answer_from_passages(query, passages) ==
    IF passages = <<>>
    THEN [kind |-> "no_relevant", query |-> <<>>, items |-> <<>>]
    ELSE [kind |-> "composed", query |-> strip(query),
          items |-> [i \in 1..Len(passages) |->
                       [idx |-> i, score |-> passages[i][2],
                        preview |-> preview_of(passages[i][1])]]]

\* the message ask returns when vectorstore is None
UploadFirstAnswer == [kind |-> "upload_first", query |-> <<>>, items |-> <<>>]

NoAnswer == [kind |-> "none", query |-> <<>>, items |-> <<>>]

-----------------------------------------------------------------------------
(* RAGSessionState *)

\* k of the similarity_search call in ask
ask_k == 3

\* variant: "if text:" in place of "if text.strip():"
should_append_unstripped(text) == text # <<>>

\* if text.strip():
should_append(text) == strip(text) # <<>>

\* variant: the new text put in front of the list
append_document_front(texts, text) == <<text>> \o texts

\* self.raw_texts.append(text)
append_document(texts, text) == Append(texts, text)

\* merged = "\n\n".join(self.raw_texts)
merge_texts(texts) == join(<<10, 10>>, texts)

\* what the last call was given and how it ended; the fields a call does not
\* have hold their empty value
Observation(op, arg, k, raised, transformed, top_idx, passages, ret) ==
    [op |-> op, arg |-> arg, k |-> k, raised |-> raised, transformed |-> transformed,
     top_idx |-> top_idx, passages |-> passages, ret |-> ret]

\* RAGSessionState.__init__
Init ==
    /\ raw_texts = <<>>
    /\ all_chunks = <<>>
    /\ vectorstore = None
    /\ last = Observation("init", <<>>, 0, FALSE, FALSE, <<>>, <<>>, NoAnswer)

\* RAGSessionState.add_document.  When SimpleVectorStore raises, the append and
\* the assignment to all_chunks have already happened and vectorstore keeps its
\* old value.
add_document(file_bytes, filename) ==
    LET text == load_file_to_text(file_bytes, filename)
        texts == IF should_append(text) THEN append_document(raw_texts, text)
                 ELSE raw_texts
        chunks == split_text_to_chunks(merge_texts(texts),
                                       chunk_size_default, chunk_overlap_default)
        built == build_vectorstore_from_chunks(chunks)
    IN  /\ Len(raw_texts) < MaxDocs
        /\ raw_texts' = texts
        /\ all_chunks' = chunks
        /\ vectorstore' = IF built.raised THEN vectorstore ELSE built.value
        /\ last' = Observation("add_document", file_bytes, 0, built.raised, FALSE,
                               <<>>, <<>>, NoAnswer)

\* RAGSessionState.ask
ask(query) ==
    /\ IF vectorstore = None
       THEN last' = Observation("ask", query, ask_k, FALSE, FALSE, <<>>, <<>>,
                                UploadFirstAnswer)
       ELSE \E out \in similarity_search(vectorstore, query, ask_k) :
               last' = Observation("ask", query, ask_k, FALSE, out.transformed,
                                   out.top_idx, out.passages,
                                   build_answer_from_passages(query, out.passages))
    /\ UNCHANGED <<raw_texts, all_chunks, vectorstore>>

-----------------------------------------------------------------------------
(* Inputs *)

\* a line of n characters: word, then full stops
Line(word, n) == word \o Rep(46, n - Len(word))

\* three lines, "ab...", "cd..." and "ef...": longer than one chunk
LongDocument ==
    Line(<<97, 98>>, 250) \o <<10>> \o Line(<<99, 100>>, 60) \o <<10>>
        \o Line(<<101, 102>>, 250)

Documents ==
    { <<>>,                                   \* no bytes
      <<32, 10, 9>>,                          \* " \n\t"
      <<255, 194, 160, 254>>,                 \* invalid bytes around a no-break space
      <<33, 255, 33>>,                        \* "!!" around an invalid byte
      <<97, 32, 98>>,                         \* "a b": single-character words only
      <<65, 98, 32, 99, 100, 10, 97, 98>>,    \* "Ab cd\nab"
      LongDocument }

Filenames == {"notes.txt", "SCAN.PDF"}

Queries ==
    { <<>>,                                   \* ""
      <<32, 9>>,                              \* " \t"
      <<97, 98>>,                             \* "ab"
      <<122, 122, 32, 97>>,                   \* "zz a": no term of any input
      <<67, 68, 32, 101, 102, 33>> }          \* "CD ef!"

Next ==
    \/ \E file_bytes \in Documents, filename \in Filenames :
           add_document(file_bytes, filename)
    \/ \E query \in Queries : ask(query)

Spec == Init /\ [][Next]_vars

-----------------------------------------------------------------------------
(* Direct use of the index: build_vectorstore_from_chunks on a drawn chunk    *)
(* sequence, then similarity_search with any k                                *)

SampleChunks ==
    { <<97, 98, 32, 99, 100>>,                \* "ab cd"
      <<65, 66, 33, 97, 32, 101, 102>>,       \* "AB!a ef"
      <<33, 33>> }                            \* "!!"

ChunkSeqs == UNION {[1..n -> SampleChunks] : n \in 1..MaxChunks}

SearchInit ==
    /\ raw_texts = <<>>
    /\ all_chunks \in ChunkSeqs
    /\ vectorstore = None
    /\ last = Observation("init", <<>>, 0, FALSE, FALSE, <<>>, <<>>, NoAnswer)

\* build_vectorstore_from_chunks(all_chunks)
build_index ==
    LET built == build_vectorstore_from_chunks(all_chunks)
    IN  /\ last.op = "init"
        /\ vectorstore' = built.value
        /\ last' = Observation("build", <<>>, 0, built.raised, FALSE, <<>>, <<>>,
                               NoAnswer)
        /\ UNCHANGED <<raw_texts, all_chunks>>

\* vectorstore.similarity_search(query, k)
search(query, k) ==
    /\ vectorstore # None
    /\ \E out \in similarity_search(vectorstore, query, k) :
           last' = Observation("similarity_search", query, k, FALSE, out.transformed,
                               out.top_idx, out.passages, NoAnswer)
    /\ UNCHANGED <<raw_texts, all_chunks, vectorstore>>

SearchNext ==
    \/ build_index
    \/ \E query \in Queries, k \in 1..MaxK : search(query, k)

SearchSpec == SearchInit /\ [][SearchNext]_vars

-----------------------------------------------------------------------------
(* Properties *)

\* the decoded text of the bytes given to the last add_document
LastText == load_file_to_text(last.arg, "")

\* the chunks of the index the last search ran on
Indexed == vectorstore.chunks

\* chunk i of the index and the query of the last call have a token in common
SharesTerm(i) == terms(analyze(last.arg)) \cap terms(analyze(Indexed[i])) # {}

Returned == {last.top_idx[p] : p \in DOMAIN last.top_idx}

Position(i) == CHOOSE p \in DOMAIN last.top_idx : last.top_idx[p] = i

\* C1: no add_document or ask call raises.
NeverRaises == last.raised = FALSE

\* C2: in every state a caller can observe, all_chunks is the chunking of the
\* stored documents joined by a blank line, and the index is the one built from
\* exactly those chunks (absent exactly when there are none).
ChunksAndIndexConsistent ==
    LET chunks == split_text_to_chunks(merge_texts(raw_texts),
                                       chunk_size_default, chunk_overlap_default)
        built == build_vectorstore_from_chunks(chunks)
    IN  /\ all_chunks = chunks
        /\ ~built.raised
        /\ vectorstore = built.value
        /\ (vectorstore = None) <=> (all_chunks = <<>>)

\* C3: add_document with content that decodes to empty or whitespace-only text
\* leaves the document list, the chunks and the index as they were; with zero
\* documents, both counts stay 0 and there is still no index.
BlankDocumentChangesNothing ==
    [][ ( last'.op = "add_document"
          /\ strip(load_file_to_text(last'.arg, "")) = <<>> )
        => /\ raw_texts' = raw_texts
           /\ all_chunks' = all_chunks
           /\ vectorstore' = vectorstore
           /\ ( Len(raw_texts) = 0
                => Len(raw_texts') = 0 /\ Len(all_chunks') = 0 /\ vectorstore' = None )
      ]_vars

BlankDocumentAdded ==
    /\ last.op = "add_document"
    /\ last.arg # <<>>
    /\ strip(LastText) = <<>>
    /\ Len(raw_texts) = 0
    /\ Len(all_chunks) = 0

\* C4: with zero documents, ask returns the "upload a document first" message
\* and does not raise, whatever the query.
AskWithoutDocumentsSaysUploadFirst ==
    (last.op = "ask" /\ Len(raw_texts) = 0)
        => (~last.raised /\ last.ret = UploadFirstAnswer)

AskedWithoutDocuments ==
    /\ last.op = "ask"
    /\ Len(raw_texts) = 0
    /\ strip(last.arg) # <<>>
    /\ last.ret = UploadFirstAnswer

\* C5 as stated: in every state, ask with an empty or whitespace-only query
\* returns the composer's answer for an empty passage list, and the vectorizer
\* is not invoked.
BlankQueryAlwaysNoRelevant ==
    (last.op = "ask" /\ strip(last.arg) = <<>>)
        => ( last.ret = build_answer_from_passages(last.arg, <<>>)
             /\ ~last.transformed )

\* C5, amended: in every state in which an index exists, ask with an empty or
\* whitespace-only query returns the composer's answer for an empty passage
\* list, and the vectorizer is not invoked.
BlankQueryWithIndexNoRelevant ==
    (last.op = "ask" /\ strip(last.arg) = <<>> /\ vectorstore # None)
        => ( last.ret = build_answer_from_passages(last.arg, <<>>)
             /\ last.ret.kind = "no_relevant"
             /\ ~last.transformed )

BlankQueryAskedWithIndex ==
    /\ last.op = "ask"
    /\ last.arg # <<>>
    /\ strip(last.arg) = <<>>
    /\ vectorstore # None
    /\ last.ret.kind = "no_relevant"

\* C6: on the index built from a non-empty chunk sequence, similarity_search
\* with k >= 1 returns at most min(k, number of chunks) pairs, each chunk one of
\* the indexed sequence, with scores in non-increasing order.
SearchReturnsAtMostKSorted ==
    (last.op = "similarity_search")
        => /\ Len(last.passages) <= Min(last.k, Len(all_chunks))
           /\ \A p \in DOMAIN last.passages :
                  \E i \in DOMAIN all_chunks : last.passages[p][1] = all_chunks[i]
           /\ \A p, q \in DOMAIN last.passages :
                  p < q => last.passages[p][2] >= last.passages[q][2]

SearchCutAtK ==
    /\ last.op = "similarity_search"
    /\ Len(all_chunks) > last.k
    /\ Len(last.passages) = last.k
    /\ last.k >= 2
    /\ last.passages[1][2] > last.passages[last.k][2]

\* C7: the document list only grows: stored documents keep their content and
\* place, a new document is appended at the end, and ask leaves the list alone.
DocumentsOnlyGrow ==
    [][ /\ Len(raw_texts') >= Len(raw_texts)
        /\ Len(raw_texts') <= Len(raw_texts) + 1
        /\ SubSeq(raw_texts', 1, Len(raw_texts)) = raw_texts
        /\ ( Len(raw_texts') = Len(raw_texts) + 1
             => /\ last'.op = "add_document"
                /\ raw_texts'[Len(raw_texts')] = load_file_to_text(last'.arg, "") )
        /\ ( last'.op = "ask" => raw_texts' = raw_texts )
      ]_vars

TwoDocumentsThenAsk ==
    /\ last.op = "ask"
    /\ Len(raw_texts) = 2
    /\ raw_texts[1] # raw_texts[2]

\* C8: when the query has a term that occurs in some indexed chunk, the first
\* passage of the search (and the first passage ask lists) is a chunk holding a
\* query term, with score > 0, and every chunk sharing a term with the query is
\* ranked above every chunk sharing none.
QueryTermRanksFirst ==
    ( last.op = "ask" /\ vectorstore # None
      /\ \E i \in DOMAIN Indexed : SharesTerm(i) )
        => /\ last.passages # <<>>
           /\ SharesTerm(last.top_idx[1])
           /\ last.passages[1] = <<Indexed[last.top_idx[1]], last.passages[1][2]>>
           /\ last.passages[1][2] > 0
           /\ last.ret.kind = "composed"
           /\ last.ret.items[1].preview = preview_of(Indexed[last.top_idx[1]])
           /\ last.ret.items[1].score > 0
           /\ \A i, j \in DOMAIN Indexed :
                  (SharesTerm(i) /\ ~SharesTerm(j) /\ j \in Returned)
                      => (i \in Returned /\ Position(i) < Position(j))

MatchingAndOtherChunkListed ==
    /\ last.op = "ask"
    /\ vectorstore # None
    /\ \E i, j \in Returned : SharesTerm(i) /\ ~SharesTerm(j)

\* C9 as stated: ties are broken by chunk order: of two chunks with equal
\* score the earlier one is returned first, and when more than k chunks tie the
\* earliest ones are kept.
TiesKeepChunkOrder ==
    (last.op = "similarity_search" /\ last.transformed)
        => LET scores == cosine_scores(vectorstore, last.arg)
           IN  /\ \A p, q \in DOMAIN last.top_idx :
                      (p < q /\ scores[last.top_idx[p]] = scores[last.top_idx[q]])
                          => last.top_idx[p] < last.top_idx[q]
               /\ \A i \in Returned : \A m \in DOMAIN Indexed \ Returned :
                      scores[m] = scores[i] => i < m

\* C9, amended: the results are ranked by descending score and are the
\* min(k, n) best: they are distinct chunks of the index, each paired with its
\* own score, and no chunk left out scores higher than a returned one.  The
\* order among chunks of equal score, and which of them are kept, is not fixed.
SearchKeepsHighestScores ==
    (last.op = "similarity_search" /\ last.transformed)
        => LET scores == cosine_scores(vectorstore, last.arg)
           IN  /\ Len(last.top_idx) = Min(last.k, Len(Indexed))
               /\ \A p, q \in DOMAIN last.top_idx :
                      p < q => /\ last.top_idx[p] # last.top_idx[q]
                               /\ scores[last.top_idx[p]] >= scores[last.top_idx[q]]
               /\ \A p \in DOMAIN last.top_idx :
                      last.passages[p]
                          = <<Indexed[last.top_idx[p]], scores[last.top_idx[p]]>>
               /\ \A i \in Returned : \A m \in DOMAIN Indexed \ Returned :
                      scores[m] <= scores[i]

TieAcrossTheCut ==
    /\ last.op = "similarity_search"
    /\ last.transformed
    /\ LET scores == cosine_scores(vectorstore, last.arg)
       IN  \E i \in Returned : \E m \in DOMAIN Indexed \ Returned :
               scores[m] = scores[i] /\ m < i

\* C10: once an index exists, ask with a query that is not blank never returns
\* the "no relevant content" message: it lists exactly min(3, number of chunks)
\* passages, whatever their scores.
AskWithIndexListsPassages ==
    (last.op = "ask" /\ vectorstore # None /\ strip(last.arg) # <<>>)
        => /\ last.ret.kind = "composed"
           /\ Len(last.passages) = Min(ask_k, Len(Indexed))
           /\ Len(last.ret.items) = Len(last.passages)

UnrelatedQueryListsZeroScores ==
    /\ last.op = "ask"
    /\ vectorstore # None
    /\ Len(Indexed) > ask_k
    /\ Len(last.passages) = ask_k
    /\ \A p \in DOMAIN last.passages : last.passages[p][2] = 0
    /\ last.ret.kind = "composed"

=============================================================================
